---- MODULE Spec2Model ----
(***************************************************************************)
(* A model of the runtime core of the AItuber service:                     *)
(*   - CacheManager   (src/services/cache_manager.py)                      *)
(*   - SyncManager    (src/services/sync_manager.py)                       *)
(*   - VideoManager   (src/services/video_manager.py)                      *)
(*   - AITuberSystem.process_comment (src/main.py)                         *)
(*   - AITuberSystem.cleanup (src/main.py, src/services/aituber_system.py) *)
(* Each component has its own specification (SpecCache, SpecSave,          *)
(* SpecSync, SpecIdle, SpecSystem, SpecTalking, SpecCatalog, SpecShutdown) *)
(* over the shared state below.                                            *)
(***************************************************************************)
EXTENDS Integers, Sequences, FiniteSets, TLC

(***************************************************************************)
(* Bounds of the model.  The cache sizes and ttls are the program's        *)
(* configuration values (100/3600 and 50/7200 in src/main.py:62-65),       *)
(* scaled down so that full stores and expiry happen within MaxTime.       *)
(***************************************************************************)
MaxTime == 5
ResponseCacheSize == 2
ResponseCacheTtl == 2
AudioCacheSize == 1
AudioCacheTtl == 3

\* time.time() when the service is constructed (positive, as wall-clock time is)
StartTime == 3

\* playback sessions (tasks created by sync_media) and comments one run handles
MaxSessions == 3
MaxComments == 2

\* the longest clip and the largest repeat count of an idle pattern step
MaxDuration == 2
MaxRepeat == 3

\* the longest reply text get_talking_video is asked about
MaxTextLength == 500

Caches == {"responses", "audio"}
Keys == {"k1", "k2", "k3"}
Replies == {"r1", "r2"}
AudioBytes == {"b1", "b2"}
None == "None"

VARIABLES
    now,          \* time.time()
    cache,        \* CacheManager.cache of each instance: the dict, in insertion order
    cache_file,   \* content of cache_<name>.json
    backup_file,  \* content of cache_<name>_backup.json
    save_pc,      \* position of each instance inside save_cache
    ret,          \* what the last call returned
    log,          \* the records the last call logged (logger.debug/info/error)
    found,        \* history: the dict as the last call of get/set/clear_expired found it
    file_at_call, \* history: cache_<name>.json as the last save_cache call found it
    last_saved,   \* history: what the last successful save_cache wrote
    \* SyncManager
    current_task,        \* the task sync_media created last (NoTask: None)
    task,                \* each _play_synced task: status, cancel request, wake-up time
    video_queue,
    audio_queue,
    is_playing,
    current_video_path,
    current_audio_data,
    start_time,
    caller_pc,           \* where the caller of sync_media / stop is suspended
    pending,             \* the arguments of the suspended sync_media
    sync_ret,            \* what the last sync_media returned
    \* VideoManager
    idle_pattern,        \* config['idle_pattern']
    idle_catalog,        \* the keys of config['video_files']['idle']
    current_idle_index,
    current_repeat,
    is_running,
    idle_task,           \* run_idle_loop's task: status and wake-up time
    idle_ret,            \* what the last get_next_idle_video returned
    stop_called,         \* history: VideoManager.stop() has been called
    \* AITuberSystem.process_comment
    sys_pc,              \* where process_comment is
    cache_key,
    response,
    audio_data,
    pc_ret,              \* what the last process_comment returned
    comments,            \* calls of process_comment so far
    generated,           \* history: generator invocations per cache key
    \* a call of VideoManager.get_talking_video
    talk_arg,            \* its argument text_length
    talk_ret,            \* the clip it returned (None before the call)
    talking_videos,      \* config['video_files']['talking']
    \* AITuberSystem.cleanup
    impl,                \* which AITuberSystem runs: "main" (src/main.py) or
                         \* "services" (src/services/aituber_system.py)
    cleanup_pc,          \* where cleanup is ("running": not yet called)
    save_calls           \* history: the caches cleanup has called save_cache on

----------------------------------------------------------------------------
(* CacheManager: the dict, kept as the sequence of its items in insertion  *)
(* order (the order min() and json.dump iterate in).                       *)

max_size(c) == IF c = "audio" THEN AudioCacheSize ELSE ResponseCacheSize
ttl(c) == IF c = "audio" THEN AudioCacheTtl ELSE ResponseCacheTtl

Entry(k, v, t) == [key |-> k, value |-> v, timestamp |-> t]

DictKeys(d) == {d[i].key : i \in 1..Len(d)}

DictGet(d, k) == d[CHOOSE i \in 1..Len(d) : d[i].key = k]

DictDel(d, k) == SelectSeq(d, LAMBDA e : e.key # k)

\* d[k] = e : an existing key keeps its position, a new key goes last
DictPut(d, e) ==
    IF e.key \in DictKeys(d)
    THEN [i \in 1..Len(d) |-> IF d[i].key = e.key THEN e ELSE d[i]]
    ELSE Append(d, e)

\* mutant of Oldest: max() instead of min()
OldestAsNewest(d) ==
    LET i == CHOOSE i \in 1..Len(d) :
                 /\ \A j \in 1..Len(d) : d[i].timestamp >= d[j].timestamp
                 /\ \A j \in 1..(i - 1) : d[j].timestamp < d[i].timestamp
    IN d[i]

\* min(self.cache.items(), key=timestamp): the first item of minimal timestamp
Oldest(d) ==
    LET i == CHOOSE i \in 1..Len(d) :
                 /\ \A j \in 1..Len(d) : d[i].timestamp <= d[j].timestamp
                 /\ \A j \in 1..(i - 1) : d[j].timestamp > d[i].timestamp
    IN d[i]

\* mutant of Fresh: <= instead of <
FreshInclusive(c, e, t) == t - e.timestamp <= ttl(c)

\* time.time() - entry['timestamp'] < self.ttl
Fresh(c, e, t) == t - e.timestamp < ttl(c)

\* file contents: no file, a file that is not complete JSON, or a dumped dict
Absent == [kind |-> "absent", data |-> <<>>]
Corrupt == [kind |-> "corrupt", data |-> <<>>]

\* a dump that stops after the first entry
JsonFirstEntry(d) ==
    [kind |-> "json", data |-> IF d = <<>> THEN <<>> ELSE <<d[1]>>]

Json(d) == [kind |-> "json", data |-> d]
Exists(f) == f.kind # "absent"

\* json.dump raises TypeError on bytes
Serializable(v) == v \notin AudioBytes
Dumpable(d) == \A i \in 1..Len(d) : Serializable(d[i].value)

\* the dict load_cache leaves in self.cache, which __init__ set to {}
\* the file's entries taken as they are
LoadedUnfiltered(c, f, t) ==
    IF f.kind = "json" THEN f.data ELSE <<>>

Loaded(c, f, t) ==
    IF f.kind = "json"
    THEN SelectSeq(f.data, LAMBDA e : Fresh(c, e, t))
    ELSE <<>>

\* the in-memory part of set: evict the oldest when full, then store
Evicted(c, d) ==
    IF Len(d) >= max_size(c) THEN DictDel(d, Oldest(d).key) ELSE d

Stored(c, d, k, v, t) == DictPut(Evicted(c, d), Entry(k, v, t))

\* only the entries older than the ttl
ExpiredPastTtl(c, d, t) ==
    {d[i].key : i \in {j \in 1..Len(d) : t - d[j].timestamp > ttl(c)}}

Expired(c, d, t) == {d[i].key : i \in {j \in 1..Len(d) : ~Fresh(c, d[j], t)}}

\* a log record: the message, the cache name and the key it names (or None)
Msg(m, c, k) == [msg |-> m, name |-> c, key |-> k]

LoadLog(c, f) ==
    IF f.kind = "json" THEN <<Msg("Loaded", c, None)>>
    ELSE IF f.kind = "corrupt" THEN <<Msg("Error loading", c, None)>>
    ELSE <<>>

Saving == \E c \in Caches : save_pc[c] # "idle"

\* CacheManager(name): __init__ then load_cache
load_cache(c) ==
    /\ ~Saving
    /\ cache' = [cache EXCEPT ![c] = Loaded(c, cache_file[c], now)]
    /\ ret' = None
    /\ log' = LoadLog(c, cache_file[c])
    /\ UNCHANGED <<now, cache_file, backup_file, save_pc>>

get(c, k) ==
    /\ ~Saving
    /\ IF k \in DictKeys(cache[c])
       THEN IF Fresh(c, DictGet(cache[c], k), now)
            THEN /\ ret' = DictGet(cache[c], k).value
                 /\ log' = <<Msg("Cache hit", c, k)>>
                 /\ UNCHANGED cache
            ELSE /\ cache' = [cache EXCEPT ![c] = DictDel(@, k)]
                 /\ ret' = None
                 /\ log' = <<Msg("Expired cache entry removed", c, k)>>
       ELSE /\ ret' = None
            /\ log' = <<>>
            /\ UNCHANGED cache
    /\ UNCHANGED <<now, cache_file, backup_file, save_pc>>

\* set: the dict update, then save_cache (the Save* steps below)
set(c, k, v) ==
    /\ ~Saving
    /\ cache' = [cache EXCEPT ![c] = Stored(c, @, k, v, now)]
    /\ save_pc' = [save_pc EXCEPT ![c] = "rename"]
    /\ ret' = None
    /\ log' = (IF Len(cache[c]) >= max_size(c)
               THEN <<Msg("Removed oldest cache entry", c, Oldest(cache[c]).key)>>
               ELSE <<>>) \o <<Msg("Added to cache", c, k)>>
    /\ UNCHANGED <<now, cache_file, backup_file>>

clear_expired(c) ==
    /\ ~Saving
    /\ cache' = [cache EXCEPT ![c] =
                    SelectSeq(@, LAMBDA e : Fresh(c, e, now))]
    /\ save_pc' = [save_pc EXCEPT ![c] =
                    IF Expired(c, cache[c], now) # {} THEN "rename" ELSE "idle"]
    /\ ret' = None
    /\ log' = IF Expired(c, cache[c], now) # {}
              THEN <<Msg("Cleared expired entries", c, None)>> ELSE <<>>
    /\ UNCHANGED <<now, cache_file, backup_file>>

(* save_cache, one step per file operation.  A step may raise (fail): the  *)
(* rename to the backup path, the open for writing and the dump are the    *)
(* operations inside the try block.                                        *)

\* if self.cache_file.exists(): self.cache_file.rename(self.backup_file)
SaveRename(c) ==
    /\ save_pc[c] = "rename"
    /\ \E fail \in BOOLEAN :
        IF ~Exists(cache_file[c])
        THEN /\ save_pc' = [save_pc EXCEPT ![c] = "open"]
             /\ UNCHANGED <<cache_file, backup_file>>
        ELSE IF fail
        THEN /\ save_pc' = [save_pc EXCEPT ![c] = "restore"]
             /\ UNCHANGED <<cache_file, backup_file>>
        ELSE /\ backup_file' = [backup_file EXCEPT ![c] = cache_file[c]]
             /\ cache_file' = [cache_file EXCEPT ![c] = Absent]
             /\ save_pc' = [save_pc EXCEPT ![c] = "open"]
    /\ UNCHANGED <<now, cache, ret, log>>

\* open(self.cache_file, 'w'): creates or truncates the file
SaveOpen(c) ==
    /\ save_pc[c] = "open"
    /\ \E fail \in BOOLEAN :
        IF fail
        THEN /\ save_pc' = [save_pc EXCEPT ![c] = "restore"]
             /\ UNCHANGED cache_file
        ELSE /\ cache_file' = [cache_file EXCEPT ![c] = Corrupt]
             /\ save_pc' = [save_pc EXCEPT ![c] = "write"]
    /\ UNCHANGED <<now, cache, backup_file, ret, log>>

\* json.dump(self.cache, f): a failed dump leaves a truncated file
SaveWrite(c) ==
    /\ save_pc[c] = "write"
    /\ \E fail \in BOOLEAN :
        IF fail \/ ~Dumpable(cache[c])
        THEN /\ save_pc' = [save_pc EXCEPT ![c] = "restore"]
             /\ UNCHANGED cache_file
             /\ UNCHANGED log
        ELSE /\ cache_file' = [cache_file EXCEPT ![c] = Json(cache[c])]
             /\ save_pc' = [save_pc EXCEPT ![c] = "idle"]
             /\ log' = Append(log, Msg("Saved cache", c, None))
    /\ UNCHANGED <<now, cache, backup_file, ret>>

\* except: if self.backup_file.exists(): self.backup_file.rename(self.cache_file)
SaveRestore(c) ==
    /\ save_pc[c] = "restore"
    /\ IF Exists(backup_file[c])
       THEN /\ cache_file' = [cache_file EXCEPT ![c] = backup_file[c]]
            /\ backup_file' = [backup_file EXCEPT ![c] = Absent]
       ELSE UNCHANGED <<cache_file, backup_file>>
    /\ save_pc' = [save_pc EXCEPT ![c] = "idle"]
    /\ log' = Append(log, Msg("Error saving cache", c, None))
    /\ UNCHANGED <<now, cache, ret>>

save_cache(c) == SaveRename(c) \/ SaveOpen(c) \/ SaveWrite(c) \/ SaveRestore(c)

----------------------------------------------------------------------------
(* SyncManager.  sync_media and stop run in the one caller the service has *)
(* (run_monitoring awaits each process_comment); each _play_synced is a    *)
(* task of the event loop.  A step runs from one suspending await to the   *)
(* next: queue operations on the unbounded queues do not suspend.          *)

Tasks == 1..MaxSessions
NoTask == 0

\* video_data, the dict sync_media is given: duration_ok is FALSE when
\* 'duration' holds no number, on which asyncio.sleep raises TypeError
Video(p, d, ok) == [path |-> p, duration |-> d, duration_ok |-> ok]
NoVideo == Video(None, 0, TRUE)
NoMedia == [video |-> NoVideo, audio |-> None]

VideoData == { Video("talk0.mp4", 0, TRUE),
               Video("talk1.mp4", MaxDuration, TRUE),
               Video("talk2.mp4", 0, FALSE) }

Unborn == [status |-> "unborn", must_cancel |-> FALSE, wake |-> 0]

\* task.done()
done(t) == task[t].status \in {"finished", "cancelled"}

\* a task that was created and is not done
Live(t) == task[t].status \in {"scheduled", "sleeping", "blocked"}

\* the task asyncio.create_task returns next
NewTask == 1 + Cardinality({t \in Tasks : task[t].status # "unborn"})

\* mutant of Resumable: the caller does not wait for the task
ResumableAtOnce(t) == TRUE

\* await self.current_task: the caller resumes once the task is done
Resumable(t) == done(t)

\* if self.current_task and not self.current_task.done()
MustWait == current_task # NoTask /\ ~done(current_task)

\* self.current_task.cancel()
Cancelled == [task EXCEPT ![current_task].must_cancel = TRUE]

\* what stop_current_playback logs when its await ends: the await raises
\* CancelledError only if the task was cancelled before it first ran
AwaitLog ==
    IF current_task # NoTask /\ task[current_task].status = "cancelled"
    THEN <<Msg("Current playback cancelled", "sync", None)>>
    ELSE <<>>

get_playback_status ==
    [is_playing |-> is_playing,
     current_video |-> current_video_path,
     has_audio |-> current_audio_data # None,
     elapsed_time |-> IF start_time > 0 THEN now - start_time ELSE 0]

\* the two puts without the clear_queues before them
InstallKeepQueues(v, a) ==
    /\ NewTask \in Tasks
    /\ video_queue' = Append(video_queue, v)
    /\ audio_queue' = Append(audio_queue, a)
    /\ current_task' = NewTask
    /\ task' = [task EXCEPT ![NewTask] =
                   [status |-> "scheduled", must_cancel |-> FALSE, wake |-> 0]]
    /\ is_playing' = TRUE
    /\ sync_ret' = "True"

\* sync_media after stop_current_playback: clear_queues, the two puts,
\* create_task, is_playing = True, return True
Install(v, a) ==
    /\ NewTask \in Tasks
    /\ video_queue' = <<v>>
    /\ audio_queue' = <<a>>
    /\ current_task' = NewTask
    /\ task' = [task EXCEPT ![NewTask] =
                   [status |-> "scheduled", must_cancel |-> FALSE, wake |-> 0]]
    /\ is_playing' = TRUE
    /\ sync_ret' = "True"

\* sync_media up to the await in stop_current_playback, and to its return
\* when there is no task to wait for
sync_media(v, a) ==
    /\ caller_pc = "idle"
    /\ NewTask \in Tasks
    /\ IF MustWait
       THEN /\ task' = Cancelled
            /\ caller_pc' = "sync_media"
            /\ pending' = [video |-> v, audio |-> a]
            /\ sync_ret' = None
            /\ UNCHANGED <<current_task, video_queue, audio_queue, is_playing>>
       ELSE /\ Install(v, a)
            /\ UNCHANGED <<caller_pc, pending>>
    /\ log' = <<>>
    /\ UNCHANGED <<now, current_video_path, current_audio_data, start_time>>

\* sync_media from the end of the await to its return
sync_media_resume ==
    /\ caller_pc = "sync_media"
    /\ Resumable(current_task)
    /\ Install(pending.video, pending.audio)
    /\ caller_pc' = "idle"
    /\ pending' = NoMedia
    /\ log' = AwaitLog
    /\ UNCHANGED <<now, current_video_path, current_audio_data, start_time>>

\* stop (and cleanup, which only logs after it) up to the await, and to its
\* return when there is no task to wait for
stop ==
    /\ caller_pc = "idle"
    /\ IF MustWait
       THEN /\ task' = Cancelled
            /\ caller_pc' = "stop"
            /\ UNCHANGED <<video_queue, audio_queue, is_playing>>
       ELSE /\ video_queue' = <<>>
            /\ audio_queue' = <<>>
            /\ is_playing' = FALSE
            /\ UNCHANGED <<task, caller_pc>>
    /\ log' = <<>>
    /\ UNCHANGED <<now, current_task, current_video_path, current_audio_data,
                   start_time, pending, sync_ret>>

stop_resume ==
    /\ caller_pc = "stop"
    /\ Resumable(current_task)
    /\ video_queue' = <<>>
    /\ audio_queue' = <<>>
    /\ is_playing' = FALSE
    /\ caller_pc' = "idle"
    /\ log' = AwaitLog
    /\ UNCHANGED <<now, current_task, task, current_video_path,
                   current_audio_data, start_time, pending, sync_ret>>

\* only the flag is put back
ResetFlagOnly ==
    /\ is_playing' = FALSE
    /\ UNCHANGED <<current_video_path, current_audio_data, start_time>>

\* the except/finally of _play_synced, and the end of a played session
Reset ==
    /\ is_playing' = FALSE
    /\ current_video_path' = None
    /\ current_audio_data' = None
    /\ start_time' = 0

\* the first step of a _play_synced task.  A task cancelled before it first
\* ran is done without its body (try, except, finally) having run at all.
play_synced_start(t) ==
    /\ task[t].status = "scheduled"
    /\ IF task[t].must_cancel
       THEN /\ task' = [task EXCEPT ![t].status = "cancelled"]
            /\ log' = <<>>
            /\ UNCHANGED <<video_queue, audio_queue, is_playing,
                           current_video_path, current_audio_data, start_time>>
       ELSE IF video_queue = <<>> \/ audio_queue = <<>>
       THEN \* a get on an empty queue suspends the task
            /\ task' = [task EXCEPT ![t].status = "blocked"]
            /\ video_queue' = IF video_queue = <<>> THEN <<>> ELSE Tail(video_queue)
            /\ log' = <<>>
            /\ UNCHANGED <<audio_queue, is_playing, current_video_path,
                           current_audio_data, start_time>>
       ELSE LET v == Head(video_queue)
                a == Head(audio_queue)
            IN /\ video_queue' = Tail(video_queue)
               /\ audio_queue' = Tail(audio_queue)
               /\ IF v.duration_ok
                  THEN /\ current_video_path' = v.path
                       /\ current_audio_data' = a
                       /\ start_time' = now
                       /\ task' = [task EXCEPT ![t].status = "sleeping",
                                               ![t].wake = now + v.duration]
                       /\ log' = <<Msg("Starting playback", "sync", v.path)>>
                       /\ UNCHANGED is_playing
                  ELSE \* asyncio.sleep raises: except Exception, then finally
                       /\ Reset
                       /\ task' = [task EXCEPT ![t].status = "finished"]
                       /\ log' = <<Msg("Starting playback", "sync", v.path),
                                   Msg("Error in _play_synced", "sync", v.path)>>
    /\ UNCHANGED <<now, current_task, caller_pc, pending, sync_ret>>

\* the sleep is over: the end of the session, then finally
play_synced_wake(t) ==
    /\ task[t].status = "sleeping"
    /\ ~task[t].must_cancel
    /\ now >= task[t].wake
    /\ Reset
    /\ task' = [task EXCEPT ![t].status = "finished", ![t].wake = 0]
    /\ log' = <<>>
    /\ UNCHANGED <<now, current_task, video_queue, audio_queue, caller_pc,
                   pending, sync_ret>>

\* CancelledError arrives at the await the task is suspended in: the except
\* branch, then finally; the coroutine returns normally
play_synced_cancelled(t) ==
    /\ task[t].status \in {"sleeping", "blocked"}
    /\ task[t].must_cancel
    /\ Reset
    /\ task' = [task EXCEPT ![t].status = "finished", ![t].wake = 0]
    /\ log' = <<Msg("Playback cancelled", "sync", None)>>
    /\ UNCHANGED <<now, current_task, video_queue, audio_queue, caller_pc,
                   pending, sync_ret>>

----------------------------------------------------------------------------
(* VideoManager: the idle pattern cursor and the idle loop.                *)

Step(k, r) == [video |-> k, repeat |-> r]

\* config['video_files']['idle'][k]
IdleFile(k) == IF k = "00" THEN "idle00.jpg" ELSE "idle" \o k \o ".mp4"

\* config['video_files']['talking']
TalkingVideos == <<"talk0.mp4", "talk1.mp4", "talk2.mp4">>

\* the duration get_video_info finds: 0.0 for an image, frame_count / fps
Duration(name) ==
    IF name = "idle00.jpg" THEN 0
    ELSE IF name \in {"idle01.mp4", "talk0.mp4"} THEN 1
    ELSE MaxDuration

\* the wait of run_idle_loop after a clip that could not be prepared
ErrorWait == 1

NoClip == [video |-> None, is_pattern_end |-> FALSE]

\* get_next_idle_video raised: the fallback's own lookup of idle['00'] failed
IdleRaised == [video |-> "KeyError", is_pattern_end |-> FALSE]

\* mutant of LastRepeat: one repetition too many
LastRepeatOffByOne(rep, r) == rep >= r

\* self.current_repeat >= pattern['repeat'] - 1
LastRepeat(rep, r) == rep >= r - 1

\* the two lookups of the try block succeed
StepResolves ==
    /\ current_idle_index < Len(idle_pattern)
    /\ idle_pattern[current_idle_index + 1].video \in idle_catalog

get_next_idle_video ==
    IF StepResolves
    THEN LET pattern == idle_pattern[current_idle_index + 1]
         IN /\ idle_ret' = [video |-> IdleFile(pattern.video),
                            is_pattern_end |->
                                LastRepeat(current_repeat, pattern.repeat)]
            /\ IF LastRepeat(current_repeat, pattern.repeat)
               THEN /\ current_repeat' = 0
                    /\ current_idle_index' =
                           (current_idle_index + 1) % Len(idle_pattern)
               ELSE /\ current_repeat' = current_repeat + 1
                    /\ UNCHANGED current_idle_index
    ELSE /\ idle_ret' = IF "00" \in idle_catalog
                        THEN [video |-> IdleFile("00"), is_pattern_end |-> TRUE]
                        ELSE IdleRaised
         /\ UNCHANGED <<current_idle_index, current_repeat>>

\* one pass of the while body of run_idle_loop, up to its sleep; prepare_video
\* returns the clip's info or None (ok: the file is there and readable)
Iterate ==
    /\ get_next_idle_video
    /\ IF idle_ret' = IdleRaised
       THEN /\ idle_task' = [status |-> "done", wake |-> 0]
            /\ is_running' = FALSE
            /\ log' = <<Msg("Error getting next idle video", "video", None),
                        Msg("Error in idle loop", "video", None)>>
       ELSE \E ok \in BOOLEAN :
            /\ idle_task' = [status |-> "sleeping",
                             wake |-> now + (IF ok THEN Duration(idle_ret'.video)
                                                   ELSE ErrorWait)]
            /\ is_running' = TRUE
            /\ log' = (IF StepResolves THEN <<>>
                       ELSE <<Msg("Error getting next idle video", "video", None)>>)
                      \o (IF ok THEN <<>>
                          ELSE <<Msg("Error preparing video", "video", None)>>)

\* the first step of the idle task: is_running = True, then the loop
run_idle_loop_start ==
    /\ idle_task.status = "scheduled"
    /\ Iterate
    /\ UNCHANGED <<now, idle_pattern, idle_catalog, stop_called>>

\* the sleep is over: the loop condition, then the next pass or the finally
run_idle_loop_wake ==
    /\ idle_task.status = "sleeping"
    /\ now >= idle_task.wake
    /\ IF is_running
       THEN Iterate
       ELSE /\ idle_task' = [status |-> "done", wake |-> 0]
            /\ log' = <<>>
            /\ UNCHANGED <<is_running, current_idle_index, current_repeat, idle_ret>>
    /\ UNCHANGED <<now, idle_pattern, idle_catalog, stop_called>>

VideoManager_stop ==
    /\ is_running' = FALSE
    /\ stop_called' = TRUE
    /\ log' = <<>>
    /\ UNCHANGED <<now, idle_pattern, idle_catalog, current_idle_index,
                   current_repeat, idle_task, idle_ret>>

\* the thresholds of get_talking_video
ShortLimit == 50
MidLimit == 100

\* get_talking_video raised: the fallback's own talking[0] failed
TalkingRaised == "IndexError"

\* the except branch returning the last clip of the catalog
ClipOrLast(i) ==
    IF i <= Len(talking_videos) THEN talking_videos[i]
    ELSE IF Len(talking_videos) >= 1 THEN talking_videos[Len(talking_videos)]
    ELSE TalkingRaised

\* the clip at index i (from 1) of the talking catalog; when there is none
\* (IndexError in the try block) the except branch returns the first clip,
\* which raises in turn when the catalog is empty
Clip(i) ==
    IF i <= Len(talking_videos) THEN talking_videos[i]
    ELSE IF Len(talking_videos) >= 1 THEN talking_videos[1]
    ELSE TalkingRaised

\* the thresholds taken inclusively
get_talking_video_inclusive(text_length) ==
    IF text_length <= ShortLimit THEN Clip(1)
    ELSE IF text_length <= MidLimit THEN Clip(2)
    ELSE Clip(3)

get_talking_video(text_length) ==
    IF text_length < ShortLimit THEN Clip(1)
    ELSE IF text_length < MidLimit THEN Clip(2)
    ELSE Clip(3)

\* one call video_manager.get_talking_video(len(response)) and its result
TextLengths == 0..MaxTextLength

call_get_talking_video ==
    \E n \in TextLengths :
        /\ talk_arg' = n
        /\ talk_ret' = get_talking_video(n)
        /\ UNCHANGED talking_videos

\* the clip's info also for a file that is not there
prepare_video_found(path, ok) == Video(path, Duration(path), TRUE)

\* prepare_video: the clip's info with its path, or None (NoVideo)
prepare_video(path, ok) ==
    IF ok THEN Video(path, Duration(path), TRUE) ELSE NoVideo

----------------------------------------------------------------------------
(* AITuberSystem.process_comment (src/main.py), a step per suspending      *)
(* await: the generator, the synthesizer and the await inside sync_media.  *)

EmptyReply == ""

\* what generate_response and synthesize_speech can return
GenResults == Replies \cup {EmptyReply, None}
SynthResults == {"b1", None}

\* the comments get_comments delivers: the same message from a user with an id
\* and from one without (user_id defaults to '')
Comments == {<<"m1", "u1">>, <<"m1", "">>}

\* len(response)
TextLength(r) == IF r = "r1" THEN 10 ELSE IF r = "r2" THEN 75 ELSE 0

\* mutant of CacheKey: the user id is left out of the key
CacheKeyMessageOnly(m, u) == m

\* f"{comment_data['message']}_{comment_data.get('user_id', '')}"
CacheKey(m, u) == m \o "_" \o u

\* f"audio_{response}"
AudioKey(r) == "audio_" \o r

\* the truth value of a str, bytes or None
Truthy(x) == x # None /\ x # EmptyReply

ReturnedNone == [kind |-> "None", response |-> None, video_info |-> NoVideo]
Returned(r, v) == [kind |-> "dict", response |-> r, video_info |-> v]

\* process_comment up to the await of the generator (a miss) or to the
\* reply found in the response cache
process_comment(m, u) ==
    /\ sys_pc = "idle"
    /\ comments < MaxComments
    /\ comments' = comments + 1
    /\ cache_key' = CacheKey(m, u)
    /\ get("responses", CacheKey(m, u))
    /\ IF ret' # None
       THEN /\ response' = ret'
            /\ sys_pc' = "have_response"
            /\ UNCHANGED generated
       ELSE /\ response' = None
            /\ sys_pc' = "generating"
            /\ generated' = [generated EXCEPT ![CacheKey(m, u)] = @ + 1]
    /\ UNCHANGED <<audio_data, pc_ret>>

\* generate_response returns r
process_comment_generated(r) ==
    /\ sys_pc = "generating"
    /\ response' = r
    /\ IF Truthy(r)
       THEN /\ set("responses", cache_key, r)
            /\ sys_pc' = "have_response"
            /\ UNCHANGED pc_ret
       ELSE /\ sys_pc' = "idle"
            /\ pc_ret' = ReturnedNone
            /\ log' = <<Msg("Failed to generate response", "system", None)>>
            /\ UNCHANGED <<now, cache, cache_file, backup_file, save_pc, ret>>
    /\ UNCHANGED <<cache_key, audio_data, comments, generated>>

\* the look-up in the audio cache, up to the await of the synthesizer
process_comment_audio ==
    /\ sys_pc = "have_response"
    /\ get("audio", AudioKey(response))
    /\ IF ret' # None
       THEN /\ audio_data' = ret'
            /\ sys_pc' = "have_audio"
       ELSE /\ audio_data' = None
            /\ sys_pc' = "synthesizing"
    /\ UNCHANGED <<cache_key, response, pc_ret, comments, generated>>

\* synthesize_speech returns a
process_comment_synthesized(a) ==
    /\ sys_pc = "synthesizing"
    /\ audio_data' = a
    /\ IF Truthy(a)
       THEN /\ set("audio", AudioKey(response), a)
            /\ sys_pc' = "have_audio"
            /\ UNCHANGED pc_ret
       ELSE /\ sys_pc' = "idle"
            /\ pc_ret' = ReturnedNone
            /\ log' = <<Msg("Failed to synthesize speech", "system", None)>>
            /\ UNCHANGED <<now, cache, cache_file, backup_file, save_pc, ret>>
    /\ UNCHANGED <<cache_key, response, comments, generated>>

\* get_talking_video, prepare_video, and sync_media up to its await or return
process_comment_video(ok) ==
    /\ sys_pc = "have_audio"
    /\ LET video_info == prepare_video(get_talking_video(TextLength(response)), ok)
       IN IF video_info = NoVideo
          THEN /\ sys_pc' = "idle"
               /\ pc_ret' = ReturnedNone
               /\ log' = <<Msg("Failed to prepare video", "system", None)>>
               /\ UNCHANGED <<now, current_task, task, video_queue, audio_queue,
                              is_playing, current_video_path, current_audio_data,
                              start_time, caller_pc, pending, sync_ret>>
          ELSE /\ sync_media(video_info, audio_data)
               /\ IF caller_pc' = "sync_media"
                  THEN /\ sys_pc' = "syncing"
                       /\ UNCHANGED pc_ret
                  ELSE /\ sys_pc' = "idle"
                       /\ pc_ret' = Returned(response, video_info)
    /\ UNCHANGED <<cache_key, response, audio_data, comments, generated>>

\* the await inside sync_media ends: sync_media returns, process_comment returns
process_comment_synced ==
    /\ sys_pc = "syncing"
    /\ sync_media_resume
    /\ sys_pc' = "idle"
    /\ pc_ret' = Returned(response, pending.video)
    /\ UNCHANGED <<cache_key, response, audio_data, comments, generated>>

(* AITuberSystem.cleanup, which run() awaits in its finally.  save_cache is *)
(* entered by setting save_pc and then takes the steps of save_cache(c).   *)

\* cleanup of src/main.py: executor.shutdown, then the attribute look-up
\* self.sync_manager.stop_playback, which SyncManager does not have
\* (AttributeError); the except branch logs it and cleanup returns
cleanup_main ==
    /\ impl = "main"
    /\ cleanup_pc = "running"
    /\ cleanup_pc' = "done"
    /\ log' = <<Msg("Error during cleanup", "system", None)>>
    /\ UNCHANGED <<now, impl, save_calls>>

\* cleanup of src/services/aituber_system.py up to the await inside
\* sync_manager.cleanup(), or to its return when there is no task to wait for
cleanup_services ==
    /\ impl = "services"
    /\ cleanup_pc = "running"
    /\ stop
    /\ cleanup_pc' = (IF caller_pc' = "stop" THEN "stopping" ELSE "stopped")
    /\ UNCHANGED <<impl, save_calls>>

\* the await inside sync_manager.cleanup() ends
cleanup_services_resume ==
    /\ cleanup_pc = "stopping"
    /\ stop_resume
    /\ cleanup_pc' = "stopped"
    /\ UNCHANGED <<impl, save_calls>>

\* self.video_manager.stop(), then self.response_cache.save_cache() is entered
cleanup_save_responses ==
    /\ cleanup_pc = "stopped"
    /\ VideoManager_stop
    /\ save_pc' = [save_pc EXCEPT !["responses"] = "rename"]
    /\ save_calls' = save_calls \cup {"responses"}
    /\ cleanup_pc' = "saving_responses"
    /\ UNCHANGED <<impl, cache, cache_file, backup_file, ret>>

\* response_cache.save_cache() has returned; self.audio_cache.save_cache() is
\* entered
cleanup_save_audio ==
    /\ cleanup_pc = "saving_responses"
    /\ save_pc["responses"] = "idle"
    /\ save_pc' = [save_pc EXCEPT !["audio"] = "rename"]
    /\ save_calls' = save_calls \cup {"audio"}
    /\ cleanup_pc' = "saving_audio"
    /\ UNCHANGED <<now, log, impl, cache, cache_file, backup_file, ret>>

\* audio_cache.save_cache() has returned: the last log record, cleanup returns
cleanup_completed ==
    /\ cleanup_pc = "saving_audio"
    /\ save_pc["audio"] = "idle"
    /\ cleanup_pc' = "done"
    /\ log' = <<Msg("Cleanup completed", "system", None)>>
    /\ UNCHANGED <<now, impl, save_calls, cache, cache_file, backup_file,
                   save_pc, ret>>

----------------------------------------------------------------------------
cacheVars == <<cache, cache_file, backup_file, save_pc, ret>>
syncVars == <<current_task, task, video_queue, audio_queue, is_playing,
              current_video_path, current_audio_data, start_time, caller_pc,
              pending, sync_ret>>
talkVars == <<talk_arg, talk_ret, talking_videos>>
idleVars == <<idle_pattern, idle_catalog, current_idle_index, current_repeat,
              is_running, idle_task, idle_ret, stop_called, talkVars>>
shutVars == <<impl, cleanup_pc, save_calls>>
sysVars == <<sys_pc, cache_key, response, audio_data, pc_ret, comments, generated,
             shutVars>>

\* time passes; no step of save_cache reads the clock
Tick ==
    /\ ~Saving
    /\ now < MaxTime
    /\ now' = now + 1
    /\ UNCHANGED <<log, cacheVars, syncVars, idleVars, sysVars>>

(* History of the backing file, kept beside the program's state to state   *)
(* the claims about save_cache: no action of the program reads it.         *)
histVars == <<found, file_at_call, last_saved>>

\* a call of get, set or clear_expired records the dict it found
HistCall(c) == found' = cache[c]

\* a step that enters save_cache records the backing file it found; the step
\* that completes the dump records what it wrote
HistSave ==
    /\ file_at_call' = [c \in Caches |->
           IF save_pc[c] = "idle" /\ save_pc'[c] = "rename"
           THEN cache_file[c] ELSE file_at_call[c]]
    /\ last_saved' = [c \in Caches |->
           IF save_pc[c] = "write" /\ save_pc'[c] = "idle"
           THEN cache_file'[c] ELSE last_saved[c]]
    /\ UNCHANGED found

----------------------------------------------------------------------------
(* SpecCache: one CacheManager("responses") under any sequence of calls,   *)
(* constructed from any backing file an earlier run can have left.         *)

\* a dict an earlier run of the service can have dumped: the first entry has
\* expired by StartTime, the other two were written at the same instant
OldDict == << Entry("k1", "r2", StartTime - ResponseCacheTtl),
              Entry("k2", "r1", StartTime - 1),
              Entry("k3", "r2", StartTime - 1) >>

SubDict(d, ks) == SelectSeq(d, LAMBDA e : e.key \in ks)

\* a dict of three unexpired entries, as a run configured with a larger
\* response_cache_size leaves (the sizes are read from system_config.json,
\* src/main.py:71 and 88-93)
BigDict == << Entry("k1", "r2", StartTime - 1),
              Entry("k2", "r1", StartTime - 1),
              Entry("k3", "r2", StartTime) >>

BackingFiles == {Absent, Corrupt, Json(<<>>), Json(OldDict), Json(BigDict)}

BackupFiles == {Absent, Json(<<Entry("k2", "r1", StartTime - 1)>>)}

\* the (key, value) pairs the calls of set are drawn from
SetInputs == {<<"k1", "r1">>, <<"k2", "r1">>, <<"k3", "r2">>}

InitCacheManager(files, backups) ==
    /\ now = StartTime
    /\ cache_file \in [Caches -> files \cup {Absent}]
    /\ cache_file["audio"] = Absent
    /\ backup_file \in [Caches -> backups \cup {Absent}]
    /\ backup_file["audio"] = Absent
    /\ cache = [c \in Caches |-> Loaded(c, cache_file[c], now)]
    /\ save_pc = [c \in Caches |-> "idle"]
    /\ ret = None
    /\ log = LoadLog("responses", cache_file["responses"])
    /\ found = <<>>
    /\ file_at_call = [c \in Caches |-> Absent]
    /\ last_saved = [c \in Caches |-> Absent]

\* SyncManager.__init__
InitSyncManager ==
    /\ current_task = NoTask
    /\ task = [t \in Tasks |-> Unborn]
    /\ video_queue = <<>>
    /\ audio_queue = <<>>
    /\ is_playing = FALSE
    /\ current_video_path = None
    /\ current_audio_data = None
    /\ start_time = 0
    /\ caller_pc = "idle"
    /\ pending = NoMedia
    /\ sync_ret = None

\* VideoManager.__init__ with the configuration load_config read, and the
\* idle task run() creates
InitVideoManager(patterns, catalogs) ==
    /\ idle_pattern \in patterns
    /\ idle_catalog \in catalogs
    /\ current_idle_index = 0
    /\ current_repeat = 0
    /\ is_running = FALSE
    /\ idle_task = [status |-> "scheduled", wake |-> 0]
    /\ idle_ret = NoClip
    /\ stop_called = FALSE

\* get_talking_video has not been called; lengths: the arguments of the call
InitTalking(lengths) ==
    /\ talk_arg \in lengths
    /\ talk_ret = None
    /\ talking_videos = TalkingVideos

\* no comment has been processed
InitProcess ==
    /\ sys_pc = "idle"
    /\ cache_key = None
    /\ response = None
    /\ audio_data = None
    /\ pc_ret = ReturnedNone
    /\ comments = 0
    /\ generated = [k \in {CacheKey(c[1], c[2]) : c \in Comments} |-> 0]

\* the service is running: cleanup has not been called
InitShutdown(impls) ==
    /\ impl \in impls
    /\ cleanup_pc = "running"
    /\ save_calls = {}

DefaultPattern == <<Step("00", 2), Step("01", 1)>>
DefaultCatalog == {"00", "01"}

InitCache ==
    /\ InitCacheManager(BackingFiles, BackupFiles)
    /\ InitSyncManager
    /\ InitVideoManager({DefaultPattern}, {DefaultCatalog})
    /\ InitTalking({0})
    /\ InitProcess
    /\ InitShutdown({"main"})

NextCache ==
    \/ \E k \in Keys : get("responses", k) /\ HistCall("responses")
          /\ UNCHANGED <<file_at_call, last_saved, syncVars, idleVars, sysVars>>
    \/ \E kv \in SetInputs : set("responses", kv[1], kv[2]) /\ HistCall("responses")
          /\ UNCHANGED <<file_at_call, last_saved, syncVars, idleVars, sysVars>>
    \/ clear_expired("responses") /\ HistCall("responses")
          /\ UNCHANGED <<file_at_call, last_saved, syncVars, idleVars, sysVars>>
    \/ load_cache("responses") /\ UNCHANGED <<histVars, syncVars, idleVars, sysVars>>
    \/ save_cache("responses") /\ UNCHANGED <<histVars, syncVars, idleVars, sysVars>>
    \/ Tick /\ UNCHANGED histVars

vars == <<now, log, cacheVars, histVars, syncVars, idleVars, sysVars>>

SpecCache == InitCache /\ [][NextCache]_vars

----------------------------------------------------------------------------
(* SpecSave: the same CacheManager with the history of its backing file.   *)

SaveFiles == {Absent, Json(SubDict(OldDict, {"k2"}))}

SaveInputs == {<<"k1", "r1">>, <<"k2", "r1">>}

InitSave ==
    /\ InitCacheManager(SaveFiles, {Absent})
    /\ InitSyncManager
    /\ InitVideoManager({DefaultPattern}, {DefaultCatalog})
    /\ InitTalking({0})
    /\ InitProcess
    /\ InitShutdown({"main"})

NextSave ==
    \/ \E k \in Keys : get("responses", k) /\ HistSave
          /\ UNCHANGED <<syncVars, idleVars, sysVars>>
    \/ \E kv \in SaveInputs : set("responses", kv[1], kv[2]) /\ HistSave
          /\ UNCHANGED <<syncVars, idleVars, sysVars>>
    \/ clear_expired("responses") /\ HistSave
          /\ UNCHANGED <<syncVars, idleVars, sysVars>>
    \/ load_cache("responses") /\ HistSave
          /\ UNCHANGED <<syncVars, idleVars, sysVars>>
    \/ save_cache("responses") /\ HistSave
          /\ UNCHANGED <<syncVars, idleVars, sysVars>>
    \/ Tick /\ HistSave

SpecSave == InitSave /\ [][NextSave]_vars

----------------------------------------------------------------------------
(* SpecSync: one SyncManager driven by its one caller, with any video_data *)
(* and audio, its playback tasks and the clock.                            *)

AudioData == {"b1", "b2"}

InitSync ==
    /\ InitCacheManager({Absent}, {Absent})
    /\ InitSyncManager
    /\ InitVideoManager({DefaultPattern}, {DefaultCatalog})
    /\ InitTalking({0})
    /\ InitProcess
    /\ InitShutdown({"main"})

NextSync ==
    \/ \E v \in VideoData, a \in AudioData : sync_media(v, a)
          /\ UNCHANGED <<cacheVars, histVars, idleVars, sysVars>>
    \/ sync_media_resume /\ UNCHANGED <<cacheVars, histVars, idleVars, sysVars>>
    \/ stop /\ UNCHANGED <<cacheVars, histVars, idleVars, sysVars>>
    \/ stop_resume /\ UNCHANGED <<cacheVars, histVars, idleVars, sysVars>>
    \/ \E t \in Tasks : play_synced_start(t)
          /\ UNCHANGED <<cacheVars, histVars, idleVars, sysVars>>
    \/ \E t \in Tasks : play_synced_wake(t)
          /\ UNCHANGED <<cacheVars, histVars, idleVars, sysVars>>
    \/ \E t \in Tasks : play_synced_cancelled(t)
          /\ UNCHANGED <<cacheVars, histVars, idleVars, sysVars>>
    \/ Tick /\ UNCHANGED histVars

SpecSync == InitSync /\ [][NextSync]_vars

----------------------------------------------------------------------------
(* SpecIdle: one VideoManager with any of the configurations below, its    *)
(* idle loop, stop() and the clock.                                        *)

IdlePatterns == { DefaultPattern,
                  <<Step("00", MaxRepeat)>>,
                  <<>>,
                  <<Step("zz", 1), Step("00", 2)>>,
                  <<Step("01", 0), Step("00", 1)>> }

IdleCatalogs == {DefaultCatalog, {"01"}}

InitIdle ==
    /\ InitCacheManager({Absent}, {Absent})
    /\ InitSyncManager
    /\ InitVideoManager(IdlePatterns, IdleCatalogs)
    /\ InitTalking({0})
    /\ InitProcess
    /\ InitShutdown({"main"})

NextIdle ==
    \/ run_idle_loop_start /\ UNCHANGED <<cacheVars, histVars, syncVars, sysVars, talkVars>>
    \/ run_idle_loop_wake /\ UNCHANGED <<cacheVars, histVars, syncVars, sysVars, talkVars>>
    \/ VideoManager_stop /\ UNCHANGED <<cacheVars, histVars, syncVars, sysVars, talkVars>>
    \/ Tick /\ UNCHANGED histVars

SpecIdle == InitIdle /\ [][NextIdle]_vars

----------------------------------------------------------------------------
(* SpecSystem: run_monitoring handing comments to process_comment one at a *)
(* time, with both caches, the SyncManager and its tasks, and the clock.   *)

InitSystem ==
    /\ InitCacheManager({Absent}, {Absent})
    /\ InitSyncManager
    /\ InitVideoManager({DefaultPattern}, {DefaultCatalog})
    /\ InitTalking({0})
    /\ InitProcess
    /\ InitShutdown({"main"})

NextSystem ==
    \/ \E c \in Comments : process_comment(c[1], c[2])
          /\ ~Saving /\ UNCHANGED <<histVars, syncVars, idleVars, shutVars>>
    \/ \E r \in GenResults : process_comment_generated(r)
          /\ UNCHANGED <<histVars, syncVars, idleVars, shutVars>>
    \/ process_comment_audio
          /\ ~Saving /\ UNCHANGED <<histVars, syncVars, idleVars, shutVars>>
    \/ \E a \in SynthResults : process_comment_synthesized(a)
          /\ UNCHANGED <<histVars, syncVars, idleVars, shutVars>>
    \/ \E ok \in BOOLEAN : process_comment_video(ok)
          /\ ~Saving /\ UNCHANGED <<cacheVars, histVars, idleVars, shutVars>>
    \/ process_comment_synced
          /\ UNCHANGED <<cacheVars, histVars, idleVars, shutVars>>
    \/ \E c \in Caches : save_cache(c)
          /\ UNCHANGED <<histVars, syncVars, idleVars, sysVars>>
    \/ \E t \in Tasks : play_synced_start(t)
          /\ ~Saving /\ UNCHANGED <<cacheVars, histVars, idleVars, sysVars>>
    \/ \E t \in Tasks : play_synced_wake(t)
          /\ ~Saving /\ UNCHANGED <<cacheVars, histVars, idleVars, sysVars>>
    \/ \E t \in Tasks : play_synced_cancelled(t)
          /\ ~Saving /\ UNCHANGED <<cacheVars, histVars, idleVars, sysVars>>
    \/ Tick /\ UNCHANGED histVars

SpecSystem == InitSystem /\ [][NextSystem]_vars

----------------------------------------------------------------------------
(* SpecTalking: get_talking_video called with every reply length up to     *)
(* MaxTextLength, on the catalog of three talking clips.                   *)

InitSelect ==
    /\ InitCacheManager({Absent}, {Absent})
    /\ InitSyncManager
    /\ InitVideoManager({DefaultPattern}, {DefaultCatalog})
    /\ InitTalking(TextLengths)
    /\ InitProcess
    /\ InitShutdown({"main"})

NextTalking ==
    call_get_talking_video
        /\ UNCHANGED <<now, log, cacheVars, histVars, syncVars, sysVars,
                       idle_pattern, idle_catalog, current_idle_index,
                       current_repeat, is_running, idle_task, idle_ret,
                       stop_called>>

SpecTalking == InitSelect /\ [][NextTalking]_vars

----------------------------------------------------------------------------
(* SpecShutdown: either AITuberSystem with its caches written to and its   *)
(* SyncManager playing, until cleanup is called, and then cleanup.         *)

Implementations == {"main", "services"}

\* what the service stores and plays before the shutdown
ShutdownInputs == {<<"responses", "k1", "r1">>, <<"audio", "audio_r1", "b1">>}
ShutdownVideo == Video("talk1.mp4", MaxDuration, TRUE)

Running == cleanup_pc = "running"

sysOwn == <<sys_pc, cache_key, response, audio_data, pc_ret, comments, generated>>

InitShutdownSpec ==
    /\ InitCacheManager({Absent}, {Absent})
    /\ InitSyncManager
    /\ InitVideoManager({DefaultPattern}, {DefaultCatalog})
    /\ InitTalking({0})
    /\ InitProcess
    /\ InitShutdown(Implementations)

NextShutdown ==
    \/ \E i \in ShutdownInputs : Running /\ set(i[1], i[2], i[3])
          /\ UNCHANGED <<histVars, syncVars, idleVars, sysVars>>
    \/ \E c \in Caches : save_cache(c)
          /\ UNCHANGED <<histVars, syncVars, idleVars, sysVars>>
    \/ Running /\ ~Saving /\ sync_media(ShutdownVideo, "b1")
          /\ UNCHANGED <<cacheVars, histVars, idleVars, sysVars>>
    \/ Running /\ sync_media_resume
          /\ UNCHANGED <<cacheVars, histVars, idleVars, sysVars>>
    \/ \E t \in Tasks : play_synced_start(t)
          /\ ~Saving /\ UNCHANGED <<cacheVars, histVars, idleVars, sysVars>>
    \/ \E t \in Tasks : play_synced_wake(t)
          /\ ~Saving /\ UNCHANGED <<cacheVars, histVars, idleVars, sysVars>>
    \/ \E t \in Tasks : play_synced_cancelled(t)
          /\ ~Saving /\ UNCHANGED <<cacheVars, histVars, idleVars, sysVars>>
    \/ cleanup_main /\ ~Saving /\ caller_pc = "idle"
          /\ UNCHANGED <<cacheVars, histVars, syncVars, idleVars, sysOwn>>
    \/ cleanup_services /\ ~Saving
          /\ UNCHANGED <<cacheVars, histVars, idleVars, sysOwn>>
    \/ cleanup_services_resume
          /\ UNCHANGED <<cacheVars, histVars, idleVars, sysOwn>>
    \/ cleanup_save_responses
          /\ UNCHANGED <<histVars, syncVars, talkVars, sysOwn>>
    \/ cleanup_save_audio
          /\ UNCHANGED <<histVars, syncVars, idleVars, sysOwn>>
    \/ cleanup_completed
          /\ UNCHANGED <<histVars, syncVars, idleVars, sysOwn>>
    \/ Tick /\ UNCHANGED histVars

SpecShutdown == InitShutdownSpec /\ [][NextShutdown]_vars

----------------------------------------------------------------------------
(* SpecCatalog: get_talking_video on talking catalogs of zero to three     *)
(* clips, with every reply length up to MaxTextLength.                     *)

TalkingCatalogs == {SubSeq(TalkingVideos, 1, n) : n \in 0..3}

InitCatalog ==
    /\ InitCacheManager({Absent}, {Absent})
    /\ InitSyncManager
    /\ InitVideoManager({DefaultPattern}, {DefaultCatalog})
    /\ talk_arg \in TextLengths
    /\ talk_ret = None
    /\ talking_videos \in TalkingCatalogs
    /\ InitProcess
    /\ InitShutdown({"main"})

SpecCatalog == InitCatalog /\ [][NextTalking]_vars

----------------------------------------------------------------------------
(* Claims about CacheManager.                                              *)

SetReturned(c) ==
    /\ save_pc[c] = "idle"
    /\ \E i \in 1..Len(log) : log[i].msg = "Added to cache" /\ log[i].name = c

SaveFailed(c) ==
    /\ save_pc[c] = "idle"
    /\ Len(log) > 0
    /\ log[Len(log)] = Msg("Error saving cache", c, None)

\* C3: whatever backing file the store was loaded from, after each call of
\* set returns the store holds at most max_size entries.
C3_SizeBoundAfterSet ==
    \A c \in Caches : SetReturned(c) => Len(cache[c]) <= max_size(c)

\* C4: a save_cache that failed (at the rename to the backup path, at the
\* open or at the dump) leaves cache_<name>.json with the content it had when
\* that call started, absent if it was absent.
C4_FailedSaveKeepsBackingFile ==
    \A c \in Caches : SaveFailed(c) => cache_file[c] = file_at_call[c]

\* C5: once a save_cache has succeeded, at every point of every later
\* save_cache the backing file or the backup file holds the content of the
\* most recent successful save or the complete new content.
C5_SnapshotSurvivesSave ==
    \A c \in Caches :
        (last_saved[c] # Absent /\ save_pc[c] # "idle") =>
            \/ cache_file[c] \in {last_saved[c], Json(cache[c])}
            \/ backup_file[c] \in {last_saved[c], Json(cache[c])}

\* C6: a set of a key not yet present into a store holding max_size entries
\* removes exactly one existing entry, one of minimal timestamp, and keeps
\* every other existing entry with its value and timestamp.
C6_OldestFirstEviction ==
    [][\A c \in Caches, kv \in SetInputs :
        (/\ set(c, kv[1], kv[2])
         /\ kv[1] \notin DictKeys(cache[c])
         /\ Len(cache[c]) = max_size(c))
        => LET d == cache[c]
               d2 == cache'[c]
               removed == {i \in 1..Len(d) : \A j \in 1..Len(d2) : d2[j] # d[i]}
           IN /\ Cardinality(removed) = 1
              /\ \A i \in removed : \A j \in 1..Len(d) :
                     d[i].timestamp <= d[j].timestamp
              /\ kv[1] \in DictKeys(d2)]_vars

\* C6 witness: a set that has just stored a new key in a store that held
\* max_size entries, and logged the eviction.
C6_Witness ==
    \E c \in Caches, k \in Keys :
        /\ save_pc[c] = "rename"
        /\ Len(found) = max_size(c)
        /\ k \notin DictKeys(found)
        /\ Len(found) >= 2
        /\ \E i, j \in 1..Len(found) : found[i].timestamp < found[j].timestamp
        /\ Len(log) = 2
        /\ log[1].msg = "Removed oldest cache entry"
        /\ log[2] = Msg("Added to cache", c, k)

\* C7: get returns the stored value iff the key is present and
\* now - timestamp < ttl; otherwise it returns None, and it deletes a present
\* entry that has expired, so that a later get of that key returns None too.
C7_GetFreshOrNone ==
    [][\A c \in Caches, k \in Keys :
        get(c, k)
        => LET d == cache[c]
               present == k \in DictKeys(d)
               fresh == present /\ now - DictGet(d, k).timestamp < ttl(c)
           IN /\ fresh => ret' = DictGet(d, k).value /\ cache'[c] = d
              /\ ~fresh => ret' = None
              /\ (present /\ ~fresh) => cache'[c] = DictDel(d, k)
              /\ ~present => cache'[c] = d]_vars

\* C7 witness: a get has just found an expired entry, returned None and
\* deleted the entry.
C7_Witness ==
    \E c \in Caches, k \in Keys :
        /\ log = <<Msg("Expired cache entry removed", c, k)>>
        /\ k \in DictKeys(found)
        /\ now - DictGet(found, k).timestamp >= ttl(c)
        /\ k \notin DictKeys(cache[c])
        /\ ret = None

----------------------------------------------------------------------------
(* Claims about SyncManager.                                               *)

IdleStatus ==
    [is_playing |-> FALSE, current_video |-> None, has_audio |-> FALSE,
     elapsed_time |-> 0]

C2_CleanupBeforeSecondSession ==
    [][(caller_pc = "sync_media" /\ current_task' # current_task)
       => get_playback_status = IdleStatus]_vars

\* C9: when the install of a session's media has failed (_play_synced logged
\* its error), the sync_media call that created the session has returned
\* False and the synchronizer is Idle.
C9_FailedInstallReturnsFalse ==
    (Len(log) > 0 /\ log[Len(log)].msg = "Error in _play_synced")
    => /\ sync_ret = "False"
       /\ get_playback_status = IdleStatus

----------------------------------------------------------------------------
(* Claims about VideoManager.                                              *)

\* C8: a get_next_idle_video call on a step of repeat count r >= 1 whose video
\* is in the catalog, with current_repeat = j < r, returns the video of that
\* step; is_pattern_end is true iff j = r - 1; the call then leaves
\* current_repeat = 0 and the index advanced by one modulo the pattern length
\* if j = r - 1, and current_repeat = j + 1 on the same index otherwise.
C8_RepeatThenAdvance ==
    [][get_next_idle_video =>
        LET idx == current_idle_index
            rep == current_repeat
        IN (/\ idx < Len(idle_pattern)
            /\ idle_pattern[idx + 1].video \in idle_catalog
            /\ idle_pattern[idx + 1].repeat >= 1
            /\ rep < idle_pattern[idx + 1].repeat)
           => LET r == idle_pattern[idx + 1].repeat
              IN /\ idle_ret'.video = IdleFile(idle_pattern[idx + 1].video)
                 /\ idle_ret'.is_pattern_end = (rep = r - 1)
                 /\ IF rep = r - 1
                    THEN /\ current_repeat' = 0
                         /\ current_idle_index' = (idx + 1) % Len(idle_pattern)
                    ELSE /\ current_repeat' = rep + 1
                         /\ current_idle_index' = idx]_vars

\* C8 witness: the last of the r >= 2 calls on the first step has returned its
\* video with is_pattern_end true and the cursor is on the second step.
C8_Witness ==
    /\ Len(idle_pattern) >= 2
    /\ idle_pattern[1].repeat >= 2
    /\ idle_pattern[1].video \in idle_catalog
    /\ current_idle_index = 1
    /\ current_repeat = 0
    /\ idle_ret = [video |-> IdleFile(idle_pattern[1].video), is_pattern_end |-> TRUE]

----------------------------------------------------------------------------
(* Claims about process_comment.                                           *)

\* C10 as stated: every result of the generator other than None is stored in
\* the response cache under the key of the comment.
C10_NonAbsentResultStored ==
    [][\A r \in GenResults :
        (process_comment_generated(r) /\ r # None)
        => /\ cache_key \in DictKeys(cache'["responses"])
           /\ DictGet(cache'["responses"], cache_key).value = r]_vars

\* C10 amended: a process_comment whose key message_userId has an unexpired
\* entry in the response cache takes the cached reply and does not invoke the
\* generator; otherwise (no entry, or ttl elapsed since its insert) it invokes
\* the generator once; a non-empty result is stored under that key with the
\* current time, and an empty or absent result is not stored and ends the
\* call with None.  Nothing else invokes the generator.
C10_ReplyCaching ==
    [][/\ \A c \in Comments :
            process_comment(c[1], c[2]) =>
                LET key == c[1] \o "_" \o c[2]
                    d == cache["responses"]
                    hit == /\ key \in DictKeys(d)
                           /\ now - DictGet(d, key).timestamp < ttl("responses")
                IN /\ cache_key' = key
                   /\ hit => /\ generated' = generated
                             /\ response' = DictGet(d, key).value
                             /\ sys_pc' = "have_response"
                   /\ ~hit => /\ generated'[key] = generated[key] + 1
                              /\ \A k \in DOMAIN generated :
                                     k # key => generated'[k] = generated[k]
                              /\ sys_pc' = "generating"
       /\ \A r \in GenResults :
            process_comment_generated(r) =>
                /\ generated' = generated
                /\ r \in Replies =>
                       /\ cache_key \in DictKeys(cache'["responses"])
                       /\ DictGet(cache'["responses"], cache_key)
                              = Entry(cache_key, r, now)
                /\ r \notin Replies =>
                       /\ cache'["responses"] = cache["responses"]
                       /\ sys_pc' = "idle"
                       /\ pc_ret' = ReturnedNone
       /\ generated' # generated => (sys_pc = "idle" /\ sys_pc' = "generating")]_vars

\* C10 witness: the entry of a key has expired, and the second process_comment
\* with that key has removed it and is invoking the generator again.
C10_Witness ==
    \E c \in Comments :
        LET key == c[1] \o "_" \o c[2]
        IN /\ sys_pc = "generating"
           /\ cache_key = key
           /\ generated[key] = 2
           /\ log = <<Msg("Expired cache entry removed", "responses", key)>>

----------------------------------------------------------------------------
(* VideoManager.get_talking_video                                          *)

\* C11: with three talking clips, get_talking_video returns the first clip for
\* every text_length below 50, the second for every text_length from 50 to 99
\* and the third for every text_length of 100 or more; in particular 10 gives
\* the short clip, 50 and 75 the medium one, 100 and 500 the long one.
C11_ClipByLength ==
    talk_ret # None =>
        /\ Len(TalkingVideos) = 3
        /\ talk_arg < 50 => talk_ret = TalkingVideos[1]
        /\ (talk_arg >= 50 /\ talk_arg < 100) => talk_ret = TalkingVideos[2]
        /\ talk_arg >= 100 => talk_ret = TalkingVideos[3]
        /\ talk_arg \in {10} => talk_ret = "talk0.mp4"
        /\ talk_arg \in {50, 75} => talk_ret = "talk1.mp4"
        /\ talk_arg \in {100, 500} => talk_ret = "talk2.mp4"

\* C11 witness: the call with the boundary length 100 has returned the third
\* clip.
C11_Witness ==
    /\ talk_arg = 100
    /\ talk_ret = TalkingVideos[3]

----------------------------------------------------------------------------
(* CacheManager.load_cache, clear_expired and set on a present key         *)

Items(d) == {d[i] : i \in 1..Len(d)}

\* C12: constructing the cache through load_cache never raises: a missing or
\* corrupt backing file gives an empty store, and a readable backing file
\* gives exactly those of its entries with now - timestamp < ttl at load time.
C12_LoadFiltersByTtl ==
    [][load_cache("responses") =>
         LET f == cache_file["responses"]
             d == cache'["responses"]
         IN /\ ret' = None
            /\ f.kind \in {"absent", "corrupt"} => d = <<>>
            /\ f.kind = "json" =>
                   /\ Items(d) = {e \in Items(f.data) :
                                     now - e.timestamp < ttl("responses")}
                   /\ Len(d) = Cardinality(Items(d))]_vars

\* C12 witness: a load from a file this run has written has kept some of its
\* entries and dropped an expired one.
C12_Witness ==
    /\ log = <<Msg("Loaded", "responses", None)>>
    /\ cache_file["responses"].kind = "json"
    /\ \E e \in Items(cache_file["responses"].data) : e.timestamp > StartTime
    /\ cache["responses"] # <<>>
    /\ Len(cache["responses"]) < Len(cache_file["responses"].data)

\* C14: clear_expired removes every entry with now - timestamp >= ttl and no
\* other entry, and calls save_cache if and only if it removed an entry.
C14_ClearExpiredExact ==
    [][clear_expired("responses") =>
         LET d == cache["responses"]
             d2 == cache'["responses"]
         IN /\ Items(d2) = {e \in Items(d) :
                               ~(now - e.timestamp >= ttl("responses"))}
            /\ Len(d2) = Cardinality(Items(d2))
            /\ (save_pc'["responses"] # "idle") <=> (Len(d2) < Len(d))]_vars

\* C14 witness: clear_expired has removed an entry, kept another and entered
\* save_cache.
C14_Witness ==
    /\ log = <<Msg("Cleared expired entries", "responses", None)>>
    /\ save_pc["responses"] = "rename"
    /\ cache["responses"] # <<>>
    /\ Len(cache["responses"]) < Len(found)

\* C17: set on a key that is already present overwrites that entry with the
\* new value and the current timestamp and leaves every other entry of the
\* store unchanged, also when the store holds max_size entries.
C17_OverwriteKeepsOthers ==
    [][\A kv \in SetInputs :
         (set("responses", kv[1], kv[2])
            /\ kv[1] \in DictKeys(cache["responses"])) =>
             LET d == cache["responses"]
                 d2 == cache'["responses"]
             IN /\ DictGet(d2, kv[1]) = Entry(kv[1], kv[2], now)
                /\ DictKeys(d2) = DictKeys(d)
                /\ \A e \in Items(d) : e.key # kv[1] => e \in Items(d2)]_vars

----------------------------------------------------------------------------
(* SyncManager: stop, the queues, the session fields.                      *)

\* the synchronizer at rest: no live task, empty queues, the Idle status
Stopped ==
    /\ \A t \in Tasks : ~Live(t)
    /\ video_queue = <<>>
    /\ audio_queue = <<>>
    /\ ~is_playing
    /\ current_video_path = None
    /\ current_audio_data = None
    /\ start_time = 0

\* C13: when stop() (or cleanup()) returns, no playback task is live, both
\* queues are empty, is_playing is false and current_video_path,
\* current_audio_data and start_time are cleared, whether there was no
\* session, a session not yet started or a running one; a further stop()
\* leaves the synchronizer's state unchanged.
C13_StopEndsIdle ==
    [][/\ ((stop /\ ~MustWait) \/ stop_resume) => Stopped'
       /\ (stop /\ Stopped) => syncVars' = syncVars]_vars

\* C13 witness: stop() has returned after cancelling a session whose task had
\* not yet run.
C13_Witness ==
    /\ current_task # NoTask
    /\ task[current_task].status = "cancelled"
    /\ caller_pc = "idle"
    /\ log = <<Msg("Current playback cancelled", "sync", None)>>
    /\ Stopped

\* C15: in every reachable state video_queue holds at most one item and
\* audio_queue holds at most one item.
C15_SingleSlotQueues ==
    /\ Len(video_queue) <= 1
    /\ Len(audio_queue) <= 1

\* C15 witness: the media of a session are in the queues, put there after a
\* session that was cancelled before its task took its media.
C15_Witness ==
    /\ Len(video_queue) = 1
    /\ Len(audio_queue) = 1
    /\ \E t \in Tasks : task[t].status = "cancelled" /\ current_task > t

\* C16: whenever the caller can ask get_playback_status, is_playing = true
\* implies that current_video_path, current_audio_data and start_time are set
\* (those of the active session), and is_playing = false implies the Idle
\* status: no current_video, no audio, elapsed_time 0.
C16_FieldsWithFlag ==
    caller_pc = "idle" =>
        /\ is_playing =>
               /\ current_video_path # None
               /\ current_audio_data # None
               /\ start_time > 0
        /\ ~is_playing => get_playback_status = IdleStatus

\* C18: whenever a session's task finishes, by the end of its wait or by
\* cancellation (also before it first ran), and no newer session has been
\* installed, is_playing is false and current_video_path, current_audio_data
\* and start_time are cleared.
C18_SessionEndsIdle ==
    [][\A t \in Tasks :
         (Live(t) /\ task'[t].status \in {"finished", "cancelled"}
            /\ current_task' = t)
         => /\ ~is_playing'
            /\ current_video_path' = None
            /\ current_audio_data' = None
            /\ start_time' = 0]_vars

----------------------------------------------------------------------------
(* VideoManager: the idle loop and the fallback of get_next_idle_video.    *)

\* C19: the idle loop ends only by an explicit stop: its task becomes done
\* only at the loop test after stop() has cleared is_running, for every
\* pattern, catalog and asset failure; and after an asset that could not be
\* prepared it waits one time unit.
C19_LoopEndsOnlyOnStop ==
    [][/\ (idle_task.status # "done" /\ idle_task'.status = "done")
            => (idle_task.status = "sleeping" /\ ~is_running)
       /\ (idle_task'.status = "sleeping" /\ idle_task' # idle_task
              /\ Len(log') > 0 /\ log'[Len(log')].msg = "Error preparing video")
            => idle_task'.wake = now + 1]_vars

\* C20: a get_next_idle_video call that meets an internal error (the index
\* is outside the pattern, as with the empty pattern, or the step's video key
\* is not in the idle catalog) does not raise and returns the default idle
\* asset, the file of idle key '00', with is_pattern_end true.
C20_FallbackToDefault ==
    [][(get_next_idle_video
          /\ (\/ current_idle_index >= Len(idle_pattern)
              \/ idle_pattern[current_idle_index + 1].video \notin idle_catalog))
       => idle_ret' = [video |-> "idle00.jpg", is_pattern_end |-> TRUE]]_vars

----------------------------------------------------------------------------
(* process_comment: the failed response.                                   *)

\* C21: when in process_comment the generator returns None, the synthesizer
\* returns None or the talking clip cannot be prepared, process_comment
\* returns None without calling sync_media and the synchronizer's state is
\* unchanged; when the generator returns None, moreover, nothing is written
\* to the response cache and the synthesizer is not invoked.
C21_FailedResponseKeepsPlayback ==
    [][/\ process_comment_generated(None) =>
              /\ syncVars' = syncVars
              /\ cache' = cache
              /\ cache_file' = cache_file
              /\ save_pc' = save_pc
              /\ sys_pc' = "idle"
              /\ pc_ret' = ReturnedNone
       /\ process_comment_synthesized(None) =>
              /\ syncVars' = syncVars
              /\ sys_pc' = "idle"
              /\ pc_ret' = ReturnedNone
       /\ process_comment_video(FALSE) =>
              /\ syncVars' = syncVars
              /\ sys_pc' = "idle"
              /\ pc_ret' = ReturnedNone]_vars

\* C21 witness: a comment's talking clip could not be prepared while the
\* session of an earlier comment is playing; process_comment has returned
\* None and the session plays on.
C21_Witness ==
    /\ log = <<Msg("Failed to prepare video", "system", None)>>
    /\ sys_pc = "idle"
    /\ pc_ret = ReturnedNone
    /\ comments = 2
    /\ is_playing
    /\ current_task # NoTask
    /\ task[current_task].status = "sleeping"
    /\ current_video_path # None

----------------------------------------------------------------------------
(* AITuberSystem.cleanup                                                   *)

\* C22: when cleanup has finished, at shutdown, it has called save_cache on
\* the response cache and on the audio cache, in the AITuberSystem of main.py
\* and in the one of services/aituber_system.py.
C22_ShutdownSavesBothCaches ==
    cleanup_pc = "done" => save_calls = Caches

----------------------------------------------------------------------------
(* CacheManager: save_cache followed by load_cache.                        *)

----------------------------------------------------------------------------
(* VideoManager.get_talking_video on a short catalog                       *)

\* C24: with a talking catalog of one or two clips, get_talking_video raises
\* for no text_length, and returns the first clip of the catalog whenever the
\* clip of the length's bucket (first below 50, second below 100, third from
\* 100 on) is missing; when it is there that clip is returned.
C24_ShortCatalogFallsBack ==
    (talk_ret # None /\ Len(talking_videos) \in {1, 2}) =>
        LET bucket == IF talk_arg < 50 THEN 1 ELSE IF talk_arg < 100 THEN 2 ELSE 3
        IN /\ talk_ret # TalkingRaised
           /\ bucket > Len(talking_videos) => talk_ret = talking_videos[1]
           /\ bucket <= Len(talking_videos) => talk_ret = talking_videos[bucket]

\* C24 witness: on a catalog of two clips the call with a length of the third
\* bucket has returned the first clip.
C24_Witness ==
    /\ Len(talking_videos) = 2
    /\ talk_arg = 100
    /\ talk_ret = talking_videos[1]

----------------------------------------------------------------------------
(* VideoManager.stop and the idle loop                                     *)

\* C25: once VideoManager.stop() has been called after the idle task was
\* created, whether or not the task has run yet, the idle loop makes no
\* further pass (no get_next_idle_video call), and a task that is done has
\* left is_running false.
C25_StopIsEffective ==
    [][/\ (stop_called /\ idle_task.status # "done") => ~(Iterate /\ now' = now)
       /\ idle_task'.status = "done" => ~is_running']_vars

----------------------------------------------------------------------------
(* VideoManager: the cursor of the idle pattern                            *)

\* C26: for a non-empty idle pattern whose steps all have repeat >= 1, after
\* any sequence of get_next_idle_video calls the index satisfies
\* 0 <= current_idle_index < len(idle_pattern) and the repeat counter
\* satisfies 0 <= current_repeat < repeat of the step at current_idle_index.
C26_CursorInBounds ==
    (/\ idle_pattern # <<>>
     /\ \A i \in 1..Len(idle_pattern) : idle_pattern[i].repeat >= 1)
    => /\ 0 <= current_idle_index
       /\ current_idle_index < Len(idle_pattern)
       /\ 0 <= current_repeat
       /\ current_repeat < idle_pattern[current_idle_index + 1].repeat

\* C26 witness: on a pattern of two steps with repeat >= 1 the call on the
\* last step has wrapped the cursor back to the first step.
C26_Witness ==
    /\ Len(idle_pattern) = 2
    /\ \A i \in 1..2 : idle_pattern[i].repeat >= 1
    /\ idle_pattern[2].video \in idle_catalog
    /\ idle_ret = [video |-> IdleFile(idle_pattern[2].video), is_pattern_end |-> TRUE]
    /\ current_idle_index = 0
    /\ current_repeat = 0

====
